---- MODULE Spec2Model ----
(***************************************************************************)
(* Model of scandeval.benchmark.Benchmark: the model catalog cache         *)
(* (_get_model_lists), the selection resolver, the run loop and the        *)
(* results accumulator / persister of Benchmark.__call__.                  *)
(*                                                                         *)
(* One call of __call__ is a sequence of steps: a Call* action (default    *)
(* values, normalisation, model and dataset resolution), one Run* action   *)
(* per (dataset, model) pair of the run loop (the runner is an external    *)
(* collaborator whose outcome is an input), and Return (save and return).  *)
(*                                                                         *)
(* Init is the state of an instance whose constructor has returned, with   *)
(* one runner per registry entry. Spec follows calls with explicit model   *)
(* IDs, SpecCatalog calls that resolve their models through the catalog    *)
(* cache, and SpecBuild the catalog build alone over a wider set of        *)
(* language and task filters.                                              *)
(***************************************************************************)
EXTENDS Integers, Sequences, FiniteSets, TLC

VARIABLES
    self_save_results,  \* self.save_results (constructor argument)
    self_language,      \* self.language     (constructor argument)
    self_task,          \* self.task         (constructor argument)
    self_num_finetunings, \* self.num_finetunings (constructor argument)
    self_batch_size,    \* self.batch_size   (constructor argument)
    _model_lists,       \* self._model_lists: None or the catalog
    benchmark_results,  \* self.benchmark_results: dataset -> model -> result
    file,               \* content of scandeval_benchmark_results.json
    pc,                 \* "idle" (no call in progress) or "loop" (in the run loop)
    model_ids,          \* local model_ids of the call in progress
    benchmarks,         \* local benchmarks (dataset keys, registry order)
    save_results,       \* local save_results of the call in progress
    num_finetunings,    \* local num_finetunings of the call in progress
    batch_size,         \* local batch_size of the call in progress
    k,                  \* number of pairs of the run loop already visited
    args,               \* history: the arguments of the call
    attempted,          \* history: pairs whose runner this call invoked, in order
    other_failed,       \* history: <<>> or the pair whose runner raised another failure
    invalid,            \* history: pairs whose runner raised InvalidBenchmark in this call
    produced,           \* history: pair -> last result its runner returned in this call
    entry_results,      \* history: benchmark_results when the call started
    entry_lists,        \* history: _model_lists when the call started
    entry_file,         \* history: file when the call started
    n_queries,          \* history: catalog queries (_get_model_ids) issued by this call
    n_builds,           \* history: _get_model_lists runs of this call
    built_with,         \* history: lists and catalog contents of the last build
    last_config,        \* history: settings the last runner invocation ran with
    missed,             \* history: a requested key was absent from the populated cache
    outcome,            \* history: "none", "running", "returned" or "raised"
    ncalls              \* number of calls started so far

vars == <<self_save_results, self_language, self_task, self_num_finetunings,
          self_batch_size, _model_lists, benchmark_results, file, pc, model_ids,
          benchmarks, save_results, num_finetunings, batch_size, k, args,
          attempted, other_failed, invalid, produced, entry_results,
          entry_lists, entry_file, n_queries, n_builds, built_with, last_config,
          missed, outcome, ncalls>>

\* The constructor arguments kept on the instance.
self_args == <<self_save_results, self_language, self_task,
               self_num_finetunings, self_batch_size>>

\* The locals of the call that the run loop only reads.
call_locals == <<model_ids, benchmarks, save_results, num_finetunings, batch_size>>

\* The history fixed when a call starts.
call_history == <<args, entry_results, entry_lists, entry_file, n_queries,
                  n_builds, built_with, missed, ncalls>>

----------------------------------------------------------------------------
(* Bounds of the model *)

\* Calls made on one Benchmark instance.
MaxCalls == 2

\* Entries of the dataset registry that are modelled (a prefix of the list).
NumBenchmarks == 2

----------------------------------------------------------------------------
(* Values *)

\* Python's None; as a catalog key, the "no filter" wildcard.
None == "<None>"

\* An argument that is a single string, a list of strings, or not given.
Str(s) == [kind |-> "str", val |-> s]
List(l) == [kind |-> "list", val |-> l]
NoArg == [kind |-> "none", val |-> None]

\* The empty mapping (dict()).
EmptyMap == [x \in {} |-> None]

\* m with key x bound to v (m[x] = v on a dict).
SetItem(m, x, v) == [y \in (DOMAIN m) \cup {x} |-> IF y = x THEN v ELSE m[y]]

\* The elements of a sequence.
Range(s) == {s[n] : n \in 1..Len(s)}

\* The dataset keys of self._benchmarks, in order.
AllBenchmarks ==
    <<"dane", "dane-no-misc", "ddt-pos", "ddt-dep", "angry-tweets",
      "twitter-sent", "dkhate", "europarl1", "europarl2", "lcc1", "lcc2">>

\* self._benchmarks, cut to the modelled prefix.
_benchmarks ==
    SubSeq(AllBenchmarks, 1,
           IF NumBenchmarks < Len(AllBenchmarks) THEN NumBenchmarks
           ELSE Len(AllBenchmarks))

\* The hand-maintained multilingual models.
multilingual_models == <<"xlm-roberta-base", "xlm-roberta-large">>

\* Results a runner can return (opaque to the orchestrator).
Results == {"r1", "r2"}

----------------------------------------------------------------------------
(* The external model catalog (HuggingFace Hub) *)

\* Entries of the catalog page: a model id with its language tags and its
\* pipeline tag.
HubM1 == [id |-> "m1", langs |-> {"da"}, task |-> "ner"]
HubXlm == [id |-> "xlm-roberta-base", langs |-> {"multilingual"}, task |-> "fill-mask"]

\* Contents the catalog can have when it is queried; they change over time.
Hubs == {<<>>, <<HubM1>>, <<HubM1, HubXlm>>}

\* _get_model_ids: the ids of the entries of hub h that pass the language
\* filter and the pipeline_tag filter, in page order; None means no filter.
RECURSIVE _get_model_ids(_, _, _)
_get_model_ids(h, language, task) ==
    IF h = <<>> THEN <<>>
    ELSE LET e == Head(h)
             keep == /\ (language = None \/ language \in e.langs)
                     /\ (task = None \/ task = e.task)
         IN (IF keep THEN <<e.id>> ELSE <<>>) \o _get_model_ids(Tail(h), language, task)

\* model_lists[x] = ids: the bucket keeps the result of the last query only.
ExtendReplacing(ml, x, ids) == SetItem(ml, x, ids)

\* model_lists[x].extend(ids) on a defaultdict(list).
Extend(ml, x, ids) ==
    SetItem(ml, x, (IF x \in DOMAIN ml THEN ml[x] ELSE <<>>) \o ids)

\* The nested loops of _get_model_lists, from the n-th (language, task) pair on.
RECURSIVE FetchLoop(_, _, _, _, _)
FetchLoop(ml, languages, tasks, n, h) ==
    IF n > Len(languages) * Len(tasks) THEN ml
    ELSE LET language == languages[((n - 1) \div Len(tasks)) + 1]
             task == tasks[((n - 1) % Len(tasks)) + 1]
             ids == _get_model_ids(h, language, task)
         IN FetchLoop(Extend(Extend(Extend(ml, "all", ids), language, ids), task, ids),
                      languages, tasks, n + 1, h)

\* A build that adds the multilingual models to the "all" bucket only.
AddMultilingualOnlyAll(ml) == Extend(ml, "all", multilingual_models)

\* "Add multilingual models manually".
AddMultilingual(ml) ==
    SetItem(Extend(ml, "all", multilingual_models), "multilingual", multilingual_models)

\* The list l without the repetitions of its elements.
RECURSIVE Distinct(_)
Distinct(l) ==
    IF l = <<>> THEN <<>>
    ELSE LET front == Distinct(SubSeq(l, 1, Len(l) - 1))
             last == l[Len(l)]
         IN IF last \in Range(front) THEN front ELSE Append(front, last)

\* A build that returns the lists as they were accumulated.
KeepDuplicates(ml) == ml

\* "Remove duplicates from the lists": list(set(model_list)), a duplicate-free
\* list of the elements. Its order is unspecified: the list is kept in order
\* of first occurrence and whoever iterates over it may meet any order.
RemoveDuplicates(ml) == [x \in DOMAIN ml |-> Distinct(ml[x])]

\* _get_model_lists(languages, tasks) against catalog contents h. The mapping
\* returned is the defaultdict(list) the function filled in.
_get_model_lists(languages, tasks, h) ==
    [populated |-> TRUE,
     default_factory |-> "list",
     d |-> RemoveDuplicates(AddMultilingual(FetchLoop(EmptyMap, languages, tasks, 1, h)))]

\* self._model_lists = None.
NoLists == [populated |-> FALSE, default_factory |-> None, d |-> EmptyMap]

\* Number of catalog queries of one _get_model_lists run.
NumQueries(languages, tasks) == Len(languages) * Len(tasks)

----------------------------------------------------------------------------
(* Benchmark.__call__: defaults, normalisation and resolution *)

\* "Set default values if the arguments are not set".
Default(arg, self_value) == IF arg.kind = "none" THEN self_value ELSE arg

\* "Ensure that `language` is a list" (and the same for `task`).
Normalize(x) ==
    IF x.kind = "str" /\ x.val = "all" THEN <<None>>
    ELSE IF x.kind = "str" THEN <<x.val>>
    ELSE x.val

\* self._model_lists[x] raises KeyError: only a mapping without a default
\* factory raises on an absent key.
RaisesKeyError(ml, keys) ==
    /\ ml.default_factory = None
    /\ \E n \in 1..Len(keys) : keys[n] \notin DOMAIN ml.d

\* The mapping after self._model_lists[x] was evaluated for every x of keys:
\* a defaultdict(list) inserts an empty list for each absent key.
AfterLookups(ml, keys) ==
    IF ml.default_factory = "list"
    THEN [ml EXCEPT !.d = [x \in (DOMAIN ml.d) \cup Range(keys) |->
                              IF x \in DOMAIN ml.d THEN ml.d[x] ELSE <<>>]]
    ELSE ml

\* The orders in which a duplicate-free list can hold the elements of S.
Orderings(S) == {s \in [1..Cardinality(S) -> S] : Range(s) = S}

\* The lists model_ids.extend(self._model_lists[x]) can build for the keys
\* from the n-th on.
RECURSIVE ExtendAll(_, _, _)
ExtendAll(ml, keys, n) ==
    IF n > Len(keys) THEN {<<>>}
    ELSE {a \o b : a \in Orderings(Range(ml.d[keys[n]])),
                     b \in ExtendAll(ml, keys, n + 1)}

\* The buckets read by the union: every language, every task, "multilingual".
LookupKeys(languages, tasks) == languages \o tasks \o <<"multilingual">>

\* A resolution that takes the requested keys as they are.
ResolveBenchmarksUnfiltered(dataset) ==
    IF dataset.kind = "none" THEN _benchmarks
    ELSE IF dataset.kind = "str" THEN <<dataset.val>>
    ELSE dataset.val

\* "Define `datasets` variable" and "Fetch the benchmark datasets, filtered by
\* the `datasets` variable": the registry keys that are requested, in
\* registry order.
ResolveBenchmarks(dataset) ==
    LET datasets == IF dataset.kind = "none" THEN _benchmarks
                    ELSE IF dataset.kind = "str" THEN <<dataset.val>>
                    ELSE dataset.val
        requested(d) == d \in Range(datasets)
    IN SelectSeq(_benchmarks, requested)

\* A resolution that drops repeated model IDs.
ExplicitModelIdsDeduplicated(model_id) ==
    IF model_id.kind = "str" THEN <<model_id.val>>
    ELSE CHOOSE ids \in Orderings(Range(model_id.val)) : TRUE

\* "Define `model_ids` variable" for an explicit model_id.
ExplicitModelIds(model_id) ==
    IF model_id.kind = "str" THEN <<model_id.val>> ELSE model_id.val

\* The arguments of a call (the ones the model follows).
NoCall == [model_id |-> NoArg, dataset |-> NoArg, save_results |-> NoArg,
           language |-> NoArg, task |-> NoArg, num_finetunings |-> NoArg,
           batch_size |-> NoArg]

\* No catalog build has run yet.
NoBuild == [languages |-> <<>>, tasks |-> <<>>, h |-> <<>>, built |-> FALSE]

\* A build from the given filter lists against the catalog contents h.
BuildOf(languages, tasks, h) ==
    [languages |-> languages, tasks |-> tasks, h |-> h, built |-> TRUE]

\* No runner has been invoked in the call.
NoConfig == [num_finetunings |-> None, batch_size |-> None, invoked |-> FALSE]

\* What a runner invocation runs with: num_finetunings (and progress_bar) are
\* passed by the call; batch_size (and evaluate_train, verbose) are the ones
\* the runner was constructed with in __init__.
RunnerConfig ==
    [num_finetunings |-> num_finetunings.val, batch_size |-> self_batch_size.val,
     invoked |-> TRUE]

\* The call enters the run loop with the resolved lists.
EnterLoop(a, ids) ==
    /\ pc' = "loop"
    /\ model_ids' = ids
    /\ benchmarks' = ResolveBenchmarks(a.dataset)
    /\ save_results' = IF a.save_results.kind = "none" THEN self_save_results
                       ELSE a.save_results.val
    /\ num_finetunings' = Default(a.num_finetunings, self_num_finetunings)
    /\ batch_size' = Default(a.batch_size, self_batch_size)
    /\ k' = 0
    /\ outcome' = "running"

\* The history of a call that starts.
StartHistory(a) ==
    /\ args' = a
    /\ attempted' = <<>>
    /\ other_failed' = <<>>
    /\ invalid' = {}
    /\ produced' = EmptyMap
    /\ last_config' = NoConfig
    /\ entry_results' = benchmark_results
    /\ entry_lists' = _model_lists
    /\ entry_file' = file
    /\ ncalls' = ncalls + 1

\* A call with explicit model IDs that still fills an empty catalog cache.
CallExplicitFetching(a) ==
    /\ pc = "idle"
    /\ ncalls < MaxCalls
    /\ a.model_id.kind # "none"
    /\ StartHistory(a)
    /\ EnterLoop(a, ExplicitModelIds(a.model_id))
    /\ LET languages == Normalize(Default(a.language, self_language))
           tasks == Normalize(Default(a.task, self_task))
       IN IF _model_lists.populated
          THEN /\ _model_lists' = _model_lists
               /\ n_queries' = 0
               /\ n_builds' = 0
               /\ built_with' = built_with
          ELSE /\ \E h \in Hubs :
                     /\ _model_lists' = _get_model_lists(languages, tasks, h)
                     /\ built_with' = BuildOf(languages, tasks, h)
               /\ n_queries' = NumQueries(languages, tasks)
               /\ n_builds' = 1
    /\ missed' = FALSE
    /\ UNCHANGED <<self_args, benchmark_results, file>>

\* __call__ with explicit model IDs, up to the run loop.
CallExplicit(a) ==
    /\ pc = "idle"
    /\ ncalls < MaxCalls
    /\ a.model_id.kind # "none"
    /\ StartHistory(a)
    /\ EnterLoop(a, ExplicitModelIds(a.model_id))
    /\ n_queries' = 0
    /\ n_builds' = 0
    /\ missed' = FALSE
    /\ UNCHANGED <<self_args, _model_lists, benchmark_results, file, built_with>>

\* __call__ with model_id None, up to the run loop; h is what the catalog
\* holds while the call queries it.
CallCatalog(a, h) ==
    /\ pc = "idle"
    /\ ncalls < MaxCalls
    /\ a.model_id.kind = "none"
    /\ StartHistory(a)
    /\ LET languages == Normalize(Default(a.language, self_language))
           tasks == Normalize(Default(a.task, self_task))
           keys == LookupKeys(languages, tasks)
           first == ~_model_lists.populated
           ml0 == IF first THEN _get_model_lists(languages, tasks, h) ELSE _model_lists
           keyerror == RaisesKeyError(ml0, keys)
           ml1 == IF keyerror THEN _get_model_lists(languages, tasks, h) ELSE ml0
           builds == (IF first THEN 1 ELSE 0) + (IF keyerror THEN 1 ELSE 0)
       IN /\ n_builds' = builds
          /\ built_with' = IF builds > 0 THEN BuildOf(languages, tasks, h) ELSE built_with
          /\ n_queries' = builds * NumQueries(languages, tasks)
          /\ missed' = (~first /\ \E n \in 1..Len(keys) : keys[n] \notin DOMAIN _model_lists.d)
          /\ IF RaisesKeyError(ml1, keys)
             THEN \* the KeyError of the retry propagates
                  /\ _model_lists' = ml1
                  /\ pc' = "idle"
                  /\ outcome' = "raised"
                  /\ UNCHANGED <<call_locals, k>>
             ELSE /\ _model_lists' = AfterLookups(ml1, keys)
                  /\ \E ids \in ExtendAll(AfterLookups(ml1, keys), keys, 1) :
                        EnterLoop(a, ids)
    /\ UNCHANGED <<self_args, benchmark_results, file>>

\* __call__ with model_id None whose first catalog query fails (requests.get
\* raises inside _get_model_ids): the failure propagates out of the call.
CallFetchError(a) ==
    /\ pc = "idle"
    /\ ncalls < MaxCalls
    /\ a.model_id.kind = "none"
    /\ ~_model_lists.populated
    /\ NumQueries(Normalize(Default(a.language, self_language)),
                  Normalize(Default(a.task, self_task))) > 0
    /\ StartHistory(a)
    /\ n_builds' = 1
    /\ n_queries' = 1
    /\ missed' = FALSE
    /\ pc' = "idle"
    /\ outcome' = "raised"
    /\ UNCHANGED <<self_args, _model_lists, benchmark_results, file, call_locals,
                   k, built_with>>

----------------------------------------------------------------------------
(* Benchmark.__call__: the run loop *)

\* Pairs the run loop visits in one call.
NumPairs == Len(benchmarks) * Len(model_ids)

\* A run loop with the models in the outer loop and the datasets in the inner.
PairAtModelsOuter(n) ==
    <<benchmarks[((n - 1) % Len(benchmarks)) + 1],
      model_ids[((n - 1) \div Len(benchmarks)) + 1]>>

\* The n-th pair of "for dataset in benchmarks: for model_id in model_ids".
PairAt(n) ==
    <<benchmarks[((n - 1) \div Len(model_ids)) + 1],
      model_ids[((n - 1) % Len(model_ids)) + 1]>>

\* A store that replaces the dataset's whole mapping by the new cell.
StoreResultReplacing(br, dataset, model_id, results) ==
    SetItem(br, dataset, SetItem(EmptyMap, model_id, results))

\* self.benchmark_results[dataset][model_id] = results, on a defaultdict(dict).
StoreResult(br, dataset, model_id, results) ==
    SetItem(br, dataset,
            SetItem(IF dataset \in DOMAIN br THEN br[dataset] ELSE EmptyMap,
                    model_id, results))

\* The runner returns results for the next pair: they are stored.
RunOk(results) ==
    /\ pc = "loop"
    /\ k < NumPairs
    /\ LET p == PairAt(k + 1)
       IN /\ benchmark_results' = StoreResult(benchmark_results, p[1], p[2], results)
          /\ produced' = SetItem(produced, p, results)
          /\ attempted' = Append(attempted, p)
          /\ last_config' = RunnerConfig
    /\ k' = k + 1
    /\ UNCHANGED <<self_args, _model_lists, file, pc, call_locals, call_history,
                   other_failed, invalid, outcome>>

\* A run loop that does not catch InvalidBenchmark.
RunInvalidAborting ==
    /\ pc = "loop"
    /\ k < NumPairs
    /\ invalid' = invalid \cup {PairAt(k + 1)}
    /\ attempted' = Append(attempted, PairAt(k + 1))
    /\ last_config' = RunnerConfig
    /\ pc' = "idle"
    /\ outcome' = "raised"
    /\ UNCHANGED <<self_args, _model_lists, benchmark_results, file, call_locals,
                   k, call_history, other_failed, produced>>

\* A run loop that removes the cell of a pair that cannot be benchmarked.
RunInvalidDeleting ==
    /\ pc = "loop"
    /\ k < NumPairs
    /\ LET p == PairAt(k + 1)
       IN benchmark_results' =
             [d \in DOMAIN benchmark_results |->
                 [m \in (DOMAIN benchmark_results[d]) \ (IF d = p[1] THEN {p[2]} ELSE {}) |->
                     benchmark_results[d][m]]]
    /\ invalid' = invalid \cup {PairAt(k + 1)}
    /\ attempted' = Append(attempted, PairAt(k + 1))
    /\ last_config' = RunnerConfig
    /\ k' = k + 1
    /\ UNCHANGED <<self_args, _model_lists, file, pc, call_locals, call_history,
                   other_failed, produced, outcome>>

\* The runner raises InvalidBenchmark for the next pair: logged and skipped.
RunInvalid ==
    /\ pc = "loop"
    /\ k < NumPairs
    /\ invalid' = invalid \cup {PairAt(k + 1)}
    /\ attempted' = Append(attempted, PairAt(k + 1))
    /\ last_config' = RunnerConfig
    /\ k' = k + 1
    /\ UNCHANGED <<self_args, _model_lists, benchmark_results, file, pc,
                   call_locals, call_history, other_failed, produced, outcome>>

\* A run loop that catches every failure of a runner.
RunRaiseSwallowed ==
    /\ pc = "loop"
    /\ k < NumPairs
    /\ other_failed' = PairAt(k + 1)
    /\ attempted' = Append(attempted, PairAt(k + 1))
    /\ last_config' = RunnerConfig
    /\ k' = k + 1
    /\ UNCHANGED <<self_args, _model_lists, benchmark_results, file, pc,
                   call_locals, call_history, invalid, produced, outcome>>

\* The runner raises another failure for the next pair: it is not caught and
\* ends the call.
RunRaise ==
    /\ pc = "loop"
    /\ k < NumPairs
    /\ other_failed' = PairAt(k + 1)
    /\ attempted' = Append(attempted, PairAt(k + 1))
    /\ last_config' = RunnerConfig
    /\ pc' = "idle"
    /\ outcome' = "raised"
    /\ UNCHANGED <<self_args, _model_lists, benchmark_results, file, call_locals,
                   k, call_history, invalid, produced>>

----------------------------------------------------------------------------
(* Benchmark.__call__: persistence and return *)

\* The file does not exist.
NoFile == [exists |-> FALSE, keys |-> {}, cells |-> {}]

\* A dump of the cells this call produced only.
json_dump_delta(br) ==
    [exists |-> TRUE,
     keys |-> {p[1] : p \in DOMAIN produced},
     cells |-> {<<p[1], p[2], produced[p]>> : p \in DOMAIN produced}]

\* json.dump(self.benchmark_results, f): a JSON object with one member per
\* dataset key, each an object with one member per model id.
json_dump(br) ==
    [exists |-> TRUE,
     keys |-> DOMAIN br,
     cells |-> {<<d, m, br[d][m]>> : <<d, m>> \in
                   UNION {{<<d1, m1>> : m1 \in DOMAIN br[d1]} : d1 \in DOMAIN br}}]

\* The mapping a JSON document deserialises to.
json_load(doc) ==
    [d \in doc.keys |->
        [m \in {c[2] : c \in {c1 \in doc.cells : c1[1] = d}} |->
            (CHOOSE c \in doc.cells : c[1] = d /\ c[2] = m)[3]]]

\* "Save the benchmark results" after the loop has visited every pair, then
\* return self.benchmark_results.
Return ==
    /\ pc = "loop"
    /\ k = NumPairs
    /\ file' = IF save_results THEN json_dump(benchmark_results) ELSE file
    /\ pc' = "idle"
    /\ outcome' = "returned"
    /\ UNCHANGED <<self_args, _model_lists, benchmark_results, call_locals, k,
                   call_history, attempted, other_failed, invalid, produced,
                   last_config>>

----------------------------------------------------------------------------
(* Inputs and specification *)

Given(b) == [kind |-> "val", val |-> b]

\* model_id arguments of the calls.
ModelIdArgs ==
    {Str("m1"), List(<<>>), List(<<"m1", "m2">>), List(<<"m1", "m1">>)}

\* dataset arguments of the calls; "nope" is not a registry key.
DatasetArgs ==
    {NoArg, Str("dane"), Str("nope"),
     List(<<"dane-no-misc", "nope", "dane", "dane-no-misc">>)}

\* save_results arguments of the calls.
SaveArgs == {NoArg, Given(TRUE), Given(FALSE)}

\* Calls with explicit model IDs.
ExplicitCalls ==
    [model_id : ModelIdArgs, dataset : DatasetArgs, save_results : SaveArgs,
     language : {NoArg}, task : {NoArg}, num_finetunings : {NoArg},
     batch_size : {NoArg}]

\* The state after Benchmark.__init__ with the given constructor arguments.
InitWith(save_args, language_args, task_args) ==
    /\ self_save_results \in save_args
    /\ self_language \in language_args
    /\ self_task \in task_args
    /\ self_num_finetunings = Given(10)
    /\ self_batch_size = Given(32)
    /\ _model_lists = NoLists
    /\ benchmark_results = EmptyMap
    /\ file = NoFile
    /\ pc = "idle"
    /\ model_ids = <<>>
    /\ benchmarks = <<>>
    /\ save_results = FALSE
    /\ num_finetunings = Given(10)
    /\ batch_size = Given(32)
    /\ k = 0
    /\ args = NoCall
    /\ attempted = <<>>
    /\ other_failed = <<>>
    /\ invalid = {}
    /\ produced = EmptyMap
    /\ entry_results = EmptyMap
    /\ entry_lists = NoLists
    /\ entry_file = NoFile
    /\ n_queries = 0
    /\ n_builds = 0
    /\ built_with = NoBuild
    /\ last_config = NoConfig
    /\ missed = FALSE
    /\ outcome = "none"
    /\ ncalls = 0

\* Calls with explicit model IDs on one instance: the run loop, the results
\* store and the results file.
Init == InitWith(BOOLEAN, {Str("da")}, {Str("all")})

Next ==
    \/ \E a \in ExplicitCalls : CallExplicit(a)
    \/ \E results \in Results : RunOk(results)
    \/ RunInvalid
    \/ RunRaise
    \/ Return

Spec == Init /\ [][Next]_vars

----------------------------------------------------------------------------
(* Calls that resolve their models through the catalog *)

\* language arguments of the calls.
LanguageArgs == {NoArg, Str("all"), List(<<"sv">>), List(<<>>)}

\* task arguments of the calls.
TaskArgs == {NoArg, Str("ner")}

\* Calls without model IDs.
CatalogCalls ==
    [model_id : {NoArg}, dataset : {Str("dane")}, save_results : {NoArg},
     language : LanguageArgs, task : TaskArgs, num_finetunings : {NoArg},
     batch_size : {NoArg}]

\* Calls with explicit model IDs made between them.
FewExplicitCalls ==
    [model_id : {Str("m1"), List(<<>>)}, dataset : {Str("dane")},
     save_results : {NoArg}, language : LanguageArgs, task : {NoArg},
     num_finetunings : {NoArg}, batch_size : {NoArg}]

\* Results of the runners in these calls.
CatalogResults == {"r1"}

InitCatalog == InitWith({FALSE}, {Str("da")}, {Str("all")})

NextCatalog ==
    \/ \E a \in CatalogCalls : \E h \in Hubs : CallCatalog(a, h)
    \/ \E a \in CatalogCalls : CallFetchError(a)
    \/ \E a \in FewExplicitCalls : CallExplicit(a)
    \/ \E results \in CatalogResults : RunOk(results)
    \/ RunInvalid
    \/ RunRaise
    \/ Return

SpecCatalog == InitCatalog /\ [][NextCatalog]_vars

----------------------------------------------------------------------------
(* The catalog build on its own *)

\* A catalog entry tagged multilingual that is not one of the hand-maintained
\* models.
HubM2 == [id |-> "m2", langs |-> {"multilingual", "sv"}, task |-> "ner"]

\* Catalog contents the builds run against.
BuildHubs == Hubs \cup {<<HubM1, HubM2, HubXlm>>}

\* language values the lists are built from.
BuildLanguages ==
    {Str("all"), Str("da"), Str("multilingual"), List(<<>>), List(<<"all">>),
     List(<<"multilingual", "da">>), List(<<"da", "da">>), List(<<"all", "sv">>)}

\* task values the lists are built from.
BuildTasks ==
    {Str("all"), Str("ner"), List(<<>>), List(<<"all", "ner">>),
     List(<<"multilingual">>), List(<<"fill-mask", "ner">>)}

\* "If the model lists have not been fetched already, then do it", for the
\* language and task of the instance.
FetchModelLists(h) ==
    /\ pc = "idle"
    /\ ~_model_lists.populated
    /\ LET languages == Normalize(self_language)
           tasks == Normalize(self_task)
       IN /\ _model_lists' = _get_model_lists(languages, tasks, h)
          /\ n_queries' = NumQueries(languages, tasks)
          /\ built_with' = BuildOf(languages, tasks, h)
    /\ n_builds' = 1
    /\ UNCHANGED <<self_args, benchmark_results, file, pc, call_locals, k, args,
                   attempted, other_failed, invalid, produced, entry_results,
                   entry_lists, entry_file, last_config, missed, outcome, ncalls>>

InitBuild == InitWith({FALSE}, BuildLanguages, BuildTasks)

NextBuild == \E h \in BuildHubs : FetchModelLists(h)

SpecBuild == InitBuild /\ [][NextBuild]_vars

----------------------------------------------------------------------------
(* Calls that override the constructor's settings *)

\* num_finetunings and batch_size arguments of the calls.
NumFinetuningsArgs == {NoArg, Given(3)}
BatchSizeArgs == {NoArg, Given(16)}

\* Calls with explicit model IDs that override settings.
OverrideCalls ==
    [model_id : {Str("m1"), List(<<"m1", "m2">>)}, dataset : {Str("dane")},
     save_results : {NoArg, Given(TRUE)}, language : {NoArg}, task : {NoArg},
     num_finetunings : NumFinetuningsArgs, batch_size : BatchSizeArgs]

\* Calls without model IDs that override settings.
OverrideCatalogCalls ==
    [model_id : {NoArg}, dataset : {Str("dane")}, save_results : {NoArg},
     language : {NoArg, List(<<"sv">>)}, task : {NoArg, Str("ner")},
     num_finetunings : NumFinetuningsArgs, batch_size : BatchSizeArgs]

InitOverride == InitWith({FALSE}, {Str("da")}, {Str("all")})

NextOverride ==
    \/ \E a \in OverrideCalls : CallExplicit(a)
    \/ \E a \in OverrideCatalogCalls : \E h \in Hubs : CallCatalog(a, h)
    \/ \E results \in CatalogResults : RunOk(results)
    \/ RunInvalid
    \/ RunRaise
    \/ Return

SpecOverride == InitOverride /\ [][NextOverride]_vars

----------------------------------------------------------------------------
(* Properties *)

\* The last call has ended, by returning or by raising.
Ended == pc = "idle" /\ outcome \in {"returned", "raised"}

\* The last call has returned normally.
Returned == pc = "idle" /\ outcome = "returned"

\* The store br has a cell for the pair p, and its value.
HasCell(br, p) == p[1] \in DOMAIN br /\ p[2] \in DOMAIN br[p[1]]
Cell(br, p) == br[p[1]][p[2]]

\* The pairs that have a cell in br.
CellsOf(br) == UNION {{<<d, m>> : m \in DOMAIN br[d]} : d \in DOMAIN br}

\* The store base overlaid with the cells of prod (a mapping from pairs).
Overlay(base, prod) ==
    LET ds == (DOMAIN base) \cup {p[1] : p \in DOMAIN prod}
        ms(d) == (IF d \in DOMAIN base THEN DOMAIN base[d] ELSE {})
                    \cup {p[2] : p \in {q \in DOMAIN prod : q[1] = d}}
    IN [d \in ds |-> [m \in ms(d) |->
            IF <<d, m>> \in DOMAIN prod THEN prod[<<d, m>>] ELSE base[d][m]]]

\* C1: a call in which runners raised InvalidBenchmark and no other failure
\* ends by returning, has attempted every pair of the resolved datasets x
\* models cross product, and holds in the store the result of every pair
\* whose runner returned one.
C1_FailureIsolation ==
    (Ended /\ invalid # {} /\ other_failed = <<>>) =>
        /\ outcome = "returned"
        /\ Len(attempted) = Len(benchmarks) * Len(model_ids)
        /\ \A d \in Range(benchmarks) : \A m \in Range(model_ids) :
              <<d, m>> \in Range(attempted)
        /\ \A p \in DOMAIN produced :
              HasCell(benchmark_results, p) /\ Cell(benchmark_results, p) = produced[p]

\* C1 witness: a returned call of four pairs whose first pair raised
\* InvalidBenchmark and a later pair returned a result.
C1_Witness ==
    /\ Returned
    /\ Len(attempted) = 4
    /\ attempted[1] \in invalid
    /\ attempted[1] \notin DOMAIN produced
    /\ attempted[4] \in DOMAIN produced

\* C2 as stated, for the pairs whose every attempt in the call raised
\* InvalidBenchmark: after the call returns none of them has a cell in the
\* store, whatever the earlier calls stored.
C2_Original ==
    Returned => \A p \in invalid \ DOMAIN produced : ~HasCell(benchmark_results, p)

\* C2 amended: a pair whose runner raised InvalidBenchmark in a call and
\* returned no result in another attempt of that call has, from then on and
\* when the call ends, the cell it had when the call started: none if it had
\* none, the earlier result if an earlier call stored one.
C2_InvalidLeavesCell ==
    \A p \in invalid :
        p \notin DOMAIN produced =>
            /\ HasCell(benchmark_results, p) <=> HasCell(entry_results, p)
            /\ HasCell(entry_results, p) =>
                  Cell(benchmark_results, p) = Cell(entry_results, p)

\* C2 witness: a returned call in which a pair stored by an earlier call
\* raised InvalidBenchmark, and another failed pair had no cell.
C2_Witness ==
    /\ Returned
    /\ \E p \in invalid : p \notin DOMAIN produced /\ HasCell(entry_results, p)
    /\ \E p \in invalid : p \notin DOMAIN produced /\ ~HasCell(entry_results, p)

\* C3: the store is the store of the previous call overlaid with the cells
\* this call produced: produced cells hold this call's (last) result, every
\* other cell is kept unchanged, and none is removed.
C3_MergeOverwrite ==
    benchmark_results = Overlay(entry_results, produced)

\* C3 witness: a second call has ended after overwriting a cell of the first
\* call with a different result and failing on another cell of the first call.
C3_Witness ==
    /\ Ended
    /\ ncalls = 2
    /\ \E p \in DOMAIN produced :
          HasCell(entry_results, p) /\ Cell(entry_results, p) # produced[p]
    /\ \E q \in invalid : q \notin DOMAIN produced /\ HasCell(entry_results, q)

\* C4: a call without model IDs that finds the populated cache without one
\* of the requested language or task keys rebuilds the catalog exactly once,
\* with the queries of one build, before it runs its models.
C4_RebuildOnMiss ==
    (args.model_id.kind = "none" /\ missed) =>
        /\ n_builds = 1
        /\ n_queries = NumQueries(Normalize(Default(args.language, self_language)),
                                  Normalize(Default(args.task, self_task)))

\* The dataset keys a call requests.
RequestedKeys(a) ==
    IF a.dataset.kind = "none" THEN Range(_benchmarks)
    ELSE IF a.dataset.kind = "str" THEN {a.dataset.val}
    ELSE Range(a.dataset.val)

\* C5: the datasets of a call are the requested keys that are registry keys,
\* the others being dropped; when no requested key is a registry key the
\* list is empty, no runner is invoked, nothing is raised and the store stays
\* as it was when the call started.
C5_PermissiveFilter ==
    outcome # "none" =>
        /\ Range(benchmarks) = RequestedKeys(args) \cap Range(_benchmarks)
        /\ (RequestedKeys(args) \cap Range(_benchmarks) = {}) =>
              /\ benchmarks = <<>>
              /\ attempted = <<>>
              /\ outcome # "raised"
              /\ benchmark_results = entry_results

\* C5 witness: a call for the unknown dataset "nope" with two model IDs has
\* returned on an instance whose store was not empty.
C5_Witness ==
    /\ Returned
    /\ args.dataset.kind = "str"
    /\ args.dataset.val = "nope"
    /\ Len(model_ids) = 2
    /\ entry_results # EmptyMap

\* C6: in a call with explicit model IDs no catalog query is issued, no
\* catalog is built and the cache is as it was when the call started.
C6_ExplicitSkipsCatalog ==
    args.model_id.kind # "none" =>
        /\ n_queries = 0
        /\ n_builds = 0
        /\ _model_lists = entry_lists

\* C6 witness: a call with explicit model IDs has returned, after running a
\* pair, on an instance whose cache was not populated.
C6_Witness ==
    /\ Returned
    /\ args.model_id.kind # "none"
    /\ attempted # <<>>
    /\ ~entry_lists.populated

\* C7: a returned call with a list of model IDs invoked the runners (length
\* of the list) x (number of resolved datasets) times, the number of resolved
\* datasets being the registry size when no dataset was given.
C7_PairCount ==
    (Returned /\ args.model_id.kind = "list") =>
        /\ Len(attempted) = Len(args.model_id.val) * Len(benchmarks)
        /\ args.dataset.kind = "none" =>
              Len(attempted) = Len(args.model_id.val) * Len(_benchmarks)

\* C7 witness: model_id=["m1", "m2"] without dataset has returned after
\* 2 x (registry size) attempts, some of them raising InvalidBenchmark.
C7_Witness ==
    /\ Returned
    /\ args.model_id.kind = "list"
    /\ args.model_id.val = <<"m1", "m2">>
    /\ args.dataset.kind = "none"
    /\ invalid # {}
    /\ Len(attempted) = 2 * Len(_benchmarks)

\* Persistence is enabled for the last call.
SaveEnabled ==
    IF args.save_results.kind = "none" THEN self_save_results
    ELSE args.save_results.val

\* C8: when a call with persistence enabled has returned, the output file
\* exists and deserialises to the whole store.
C8_FileEqualsStore ==
    (Returned /\ SaveEnabled) =>
        /\ file.exists
        /\ json_load(file) = benchmark_results

\* C8 witness: a second call with persistence enabled has returned; the file
\* existed with another content, and the store holds a cell of the first
\* call that this call did not produce.
C8_Witness ==
    /\ Returned
    /\ SaveEnabled
    /\ entry_file.exists
    /\ entry_file # file
    /\ DOMAIN produced # {}
    /\ \E q \in CellsOf(entry_results) : q \notin DOMAIN produced

\* C9: once a runner has raised a failure other than InvalidBenchmark, the
\* call has ended by raising, the failing pair is the last one attempted,
\* the file is as it was when the call started, and the store is the store
\* at the start of the call overlaid with the cells produced before.
C9_FailFast ==
    other_failed # <<>> =>
        /\ outcome = "raised"
        /\ pc = "idle"
        /\ attempted[Len(attempted)] = other_failed
        /\ file = entry_file
        /\ benchmark_results = Overlay(entry_results, produced)

\* C9 witness: a call with persistence enabled was aborted by a runner
\* failure after it had stored a result and before its last pair, on an
\* instance with earlier results and an earlier file.
C9_Witness ==
    /\ other_failed # <<>>
    /\ save_results
    /\ DOMAIN produced # {}
    /\ Len(attempted) < Len(benchmarks) * Len(model_ids)
    /\ entry_results # EmptyMap
    /\ entry_file.exists
    /\ \E q \in CellsOf(entry_results) : q \notin DOMAIN produced

\* C10: a built catalog has a "multilingual" bucket that contains
\* xlm-roberta-base and xlm-roberta-large.
C10_MultilingualBucket ==
    _model_lists.populated =>
        /\ "multilingual" \in DOMAIN _model_lists.d
        /\ {"xlm-roberta-base", "xlm-roberta-large"}
              \subseteq Range(_model_lists.d["multilingual"])

\* C10 witness: a catalog built with "multilingual" among its language
\* filters, from a catalog that lists another model under that tag.
C10_Witness ==
    /\ _model_lists.populated
    /\ self_language.kind = "list"
    /\ "multilingual" \in Range(self_language.val)
    /\ "m2" \in Range(_model_lists.d["all"])

\* The list l holds no element twice.
NoRepeat(l) == \A i, j \in 1..Len(l) : i # j => l[i] # l[j]

\* C11: the catalog a build returns from the language list L and the task
\* list T has, when both lists are non-empty, exactly the keys "all",
\* "multilingual" and the values of L and T; each of its buckets is free of
\* duplicates; and the "all" bucket holds every identifier of every bucket.
C11_CatalogShape ==
    built_with.built =>
        LET d == _model_lists.d
        IN /\ (built_with.languages # <<>> /\ built_with.tasks # <<>>) =>
                 DOMAIN d = {"all", "multilingual"} \cup Range(built_with.languages)
                                \cup Range(built_with.tasks)
           /\ \A x \in DOMAIN d : NoRepeat(d[x])
           /\ \A x \in DOMAIN d : Range(d[x]) \subseteq Range(d["all"])

\* A build from a language list that names "da" twice found a model: the
\* fetch loop appended it to the "da" and "all" buckets more than once.
C11_Witness ==
    /\ built_with.built
    /\ built_with.languages = <<"da", "da">>
    /\ built_with.tasks = <<"fill-mask", "ner">>
    /\ _model_lists.d["da"] = <<"m1">>
    /\ "m1" \in Range(_model_lists.d["all"])
    /\ DOMAIN _model_lists.d = {"all", "multilingual", "da", "fill-mask", "ner"}

\* The value in effect for a setting when the call's non-None argument
\* overrides the constructor's.
InEffect(arg, self_value) == IF arg.kind = "none" THEN self_value ELSE arg.val

\* C12: a non-None argument of a call overrides the constructor's value for
\* that call: the catalog is built from the call's language and task, the
\* persistence follows the call's save_results, and every runner invocation
\* runs with the call's num_finetunings and the call's batch_size.
C12_PerCallOverrides ==
    /\ n_builds > 0 =>
          /\ built_with.languages = Normalize(Default(args.language, self_language))
          /\ built_with.tasks = Normalize(Default(args.task, self_task))
    /\ pc = "loop" => save_results = InEffect(args.save_results, self_save_results)
    /\ last_config.invoked =>
          /\ last_config.num_finetunings =
                InEffect(args.num_finetunings, self_num_finetunings.val)
          /\ last_config.batch_size = InEffect(args.batch_size, self_batch_size.val)

\* C13: whatever calls have been made, every dataset key of the results store
\* is a key of the dataset registry built by the constructor.
C13_StoreKeysInRegistry == DOMAIN benchmark_results \subseteq Range(_benchmarks)

\* A second call that requested a list with the unknown key "nope" among
\* registry keys has returned after storing results.
C13_Witness ==
    /\ Returned
    /\ ncalls = 2
    /\ args.dataset.kind = "list"
    /\ "nope" \in Range(args.dataset.val)
    /\ DOMAIN produced # {}
    /\ DOMAIN benchmark_results = {"dane", "dane-no-misc"}

\* The position of the dataset key d in the registry.
RegistryIndex(d) == CHOOSE n \in 1..Len(_benchmarks) : _benchmarks[n] = d

\* The dataset keys a call requests: the given ones, or the whole registry.
RequestedDatasets(a) ==
    IF a.dataset.kind = "none" THEN Range(_benchmarks)
    ELSE IF a.dataset.kind = "str" THEN {a.dataset.val}
    ELSE Range(a.dataset.val)

\* C16: the resolved dataset list of a call holds the registry entries whose
\* key is requested, in registry order and each once, whatever the order and
\* the repetitions of the request, and is the whole registry when no dataset
\* is given; the runner invocations never go back to an earlier dataset, and a
\* call that returns has visited, dataset by dataset, all models of the call.
C16_RegistryOrder ==
    outcome # "none" =>
        /\ Range(benchmarks) = Range(_benchmarks) \cap RequestedDatasets(args)
        /\ \A i, j \in 1..Len(benchmarks) :
              i < j => RegistryIndex(benchmarks[i]) < RegistryIndex(benchmarks[j])
        /\ args.dataset.kind = "none" => benchmarks = _benchmarks
        /\ \A i, j \in 1..Len(attempted) :
              i < j => RegistryIndex(attempted[i][1]) <= RegistryIndex(attempted[j][1])
        /\ Returned =>
              /\ Len(attempted) = Len(benchmarks) * Len(model_ids)
              /\ \A b \in 1..Len(benchmarks) : \A m \in 1..Len(model_ids) :
                    attempted[(b - 1) * Len(model_ids) + m] =
                        <<benchmarks[b], model_ids[m]>>

\* A call that requested "dane-no-misc" before "dane", and "dane-no-misc"
\* twice, with two models, has returned: it ran both models on "dane" first.
C16_Witness ==
    /\ Returned
    /\ args.dataset = List(<<"dane-no-misc", "nope", "dane", "dane-no-misc">>)
    /\ benchmarks = <<"dane", "dane-no-misc">>
    /\ attempted = <<<<"dane", "m1">>, <<"dane", "m2">>,
                     <<"dane-no-misc", "m1">>, <<"dane-no-misc", "m2">>>>

\* The union of the catalog buckets a call without model IDs looks up.
CandidateModels(a) ==
    LET keys == LookupKeys(Normalize(Default(a.language, self_language)),
                           Normalize(Default(a.task, self_task)))
    IN UNION {Range(_model_lists.d[x]) : x \in Range(keys)}

\* How many times the call invoked the runner of the pair p.
TimesRun(p) == Cardinality({n \in 1..Len(attempted) : attempted[n] = p})

\* C14: a call without model IDs that returns has run, on each resolved
\* dataset, every identifier of the union of the buckets of its languages,
\* its tasks and "multilingual", and each of them exactly once, also when the
\* identifier is in several of these buckets.
C14_UnionRunOnce ==
    (Returned /\ args.model_id.kind = "none") =>
        /\ {attempted[n][2] : n \in 1..Len(attempted)} = CandidateModels(args)
        /\ \A d \in Range(benchmarks) : \A m \in CandidateModels(args) :
              TimesRun(<<d, m>>) = 1

\* The identifiers returned by the queries of the last build whose language
\* filter is l, and by those whose task filter is t.
IdsForLanguage(l) ==
    UNION {Range(_get_model_ids(built_with.h, l, t)) : t \in Range(built_with.tasks)}
IdsForTask(t) ==
    UNION {Range(_get_model_ids(built_with.h, l, t)) : l \in Range(built_with.languages)}

\* The identifiers returned by the queries of the last build that have x as
\* their language filter or as their task filter.
IdsForKey(x) ==
    (IF x \in Range(built_with.languages) THEN IdsForLanguage(x) ELSE {})
        \cup (IF x \in Range(built_with.tasks) THEN IdsForTask(x) ELSE {})

\* C15 as stated: a build from the language list L and the task list T issues
\* one query per pair of L x T; the bucket keyed by a language holds exactly
\* the identifiers returned by the queries with that language filter, and the
\* bucket keyed by a task exactly those returned by the queries with that task
\* filter, the wildcard included.
C15_Original ==
    (built_with.built /\ built_with.languages # <<>> /\ built_with.tasks # <<>>) =>
        /\ n_queries = Len(built_with.languages) * Len(built_with.tasks)
        /\ \A l \in Range(built_with.languages) :
              Range(_model_lists.d[l]) = IdsForLanguage(l)
        /\ \A t \in Range(built_with.tasks) :
              Range(_model_lists.d[t]) = IdsForTask(t)

\* C15 amended: one query per pair of L x T; the bucket of a language or task
\* key other than the reserved keys "all" and "multilingual" holds exactly the
\* identifiers returned by the queries with that key as a filter, the wildcard
\* included; the "multilingual" bucket holds exactly the two hand-maintained
\* identifiers, and the "all" bucket every identifier returned plus those two.
C15_BucketContents ==
    built_with.built =>
        LET d == _model_lists.d
            keys == Range(built_with.languages) \cup Range(built_with.tasks)
            queried == built_with.languages # <<>> /\ built_with.tasks # <<>>
        IN /\ n_queries = Len(built_with.languages) * Len(built_with.tasks)
           /\ queried => \A x \in keys \ {"all", "multilingual"} :
                            Range(d[x]) = IdsForKey(x)
           /\ Range(d["multilingual"]) = Range(multilingual_models)
           /\ Range(d["all"]) =
                 Range(multilingual_models)
                    \cup (IF queried THEN UNION {IdsForKey(x) : x \in keys} ELSE {})

\* A build with the language filters "multilingual" and "da" and the task
\* filter "ner" whose "multilingual" query returned "m2": "m2" is in the "ner"
\* bucket and not in the "multilingual" bucket.
C15_Witness ==
    /\ built_with.built
    /\ built_with.languages = <<"multilingual", "da">>
    /\ built_with.tasks = <<"ner">>
    /\ n_queries = 2
    /\ Range(_model_lists.d["ner"]) = {"m1", "m2"}
    /\ Range(_model_lists.d["da"]) = {"m1"}
    /\ "m2" \in IdsForLanguage("multilingual")
    /\ "m2" \notin Range(_model_lists.d["multilingual"])

\* A key the call a requests is absent from every catalog a build from the
\* call's filter lists returns, so that a rebuild cannot add it.
StaysAbsent(a) ==
    LET languages == Normalize(Default(a.language, self_language))
        tasks == Normalize(Default(a.task, self_task))
    IN \E x \in Range(languages \o tasks) :
          \A h \in Hubs : x \notin DOMAIN _get_model_lists(languages, tasks, h).d

\* C17: a call without model IDs that requests a key no build from its filter
\* lists puts in the catalog (one of the lists is empty) ends by raising the
\* lookup failure, after one forced rebuild at most and without invoking any
\* runner.
C17_SingleRetry ==
    (args.model_id.kind = "none" /\ outcome # "none" /\ StaysAbsent(args)) =>
        /\ outcome = "raised"
        /\ pc = "idle"
        /\ n_builds <= 2
        /\ attempted = <<>>


====
